---- MODULE Spec2Model ----
(***************************************************************************)
(* LoRaWAN L2 core of codyps/lorawan: the PHY frame codec                  *)
(* (src/src/mac_frame.rs), the expected-MIC computation, the FRMPayload    *)
(* keystream encryption, the beacon codec (src/src/beacon.rs,              *)
(* src/src/lib.rs) and the band rules for channel masks and data rates     *)
(* (src/src/parameters/eu863.rs, src/src/parameters/us915.rs).             *)
(*                                                                         *)
(* Byte strings are sequences over 0..255.  A borrowed slice &b[lo..hi] is *)
(* a record [tag, off, data]: its offset into the caller's buffer and its  *)
(* contents, so that two views can be compared by position.  A Rust panic  *)
(* (slice index out of range, unwrap of Err, todo!()) is the value Panic.  *)
(***************************************************************************)
EXTENDS Integers, Sequences, FiniteSets, TLC

VARIABLES
  bytes,    \* the caller's buffer handed to PhyPayload::from_bytes
  frame,    \* what from_bytes returned (NotCalled before the call)
  view,     \* what mac_header(), payload_bytes() and mic() returned
  pay,      \* what payload() returned
  cfl,      \* what JoinAccept::cf_list() returned
  micx,     \* what mic_expected(app_key) returned, with the key used
  cin,      \* FRMPayload encryption: payload, FPort, Dir, DevAddr, FCnt
  cout,     \* crypt applied to cin.payload
  cback,    \* crypt applied to cout
  sf,       \* the spreading factor handed to Beacon::parse_beacon
  sent,     \* the beacon bytes as the gateway sent them
  bbytes,   \* the beacon bytes as received, handed to parse_beacon
  flip,     \* the bit of the beacon inverted on the air, -1 when none
  bres,     \* what parse_beacon returned
  gwin,     \* the 7 bytes handed to GwSpecificKind::from_bytes
  gwout,    \* what GwSpecificKind::from_bytes returned
  mreq,     \* channel_mask_apply: the band, channel_mask_cntl and channel_mask
  mcur,     \* the current_channel_mask handed to the next channel_mask_apply
  mprev,    \* the current_channel_mask the last channel_mask_apply was given
  mres,     \* what the last channel_mask_apply returned
  mcount,   \* how many times channel_mask_apply was called
  rcall,    \* a data-rate table lookup: the band, the function and its arguments
  rres,     \* what the lookup returned
  bband,    \* data-rate backoff: the band whose table is followed
  bstart,   \* data-rate backoff: the data rate the device started from
  bdr,      \* data-rate backoff: the current data rate
  bsteps,   \* data-rate backoff: how many times backoff_data_rate was applied (wraps)
  dev,      \* the EndDevice
  dlast,    \* the last operation on the EndDevice: arguments, state before, answer
  dsteps    \* how many operations the EndDevice went through

codecVars == << bytes, frame, view, pay, cfl, micx >>

cryptVars == << cin, cout, cback >>

beaconVars == << sf, sent, bbytes, flip, bres >>

gwVars == << gwin, gwout >>

maskVars == << mreq, mcur, mprev, mres, mcount >>

rateVars == << rcall, rres >>

tableVars == << gwVars, maskVars, rateVars >>

backoffVars == << bband, bstart, bdr, bsteps >>

deviceVars == << dev, dlast, dsteps >>

sessionVars == << backoffVars, deviceVars >>

vars == << codecVars, cryptVars, beaconVars, tableVars, sessionVars >>

\* the variables the frame codec, the payload encryption and the beacon codec leave alone
notCodec == << cryptVars, beaconVars, tableVars, sessionVars >>

notCrypt == << codecVars, beaconVars, tableVars, sessionVars >>

notBeacon == << codecVars, cryptVars, tableVars, sessionVars >>

\* the variables GwSpecificKind::from_bytes and the band rules leave alone
notGw == << codecVars, cryptVars, beaconVars, maskVars, rateVars, sessionVars >>

notMask == << codecVars, cryptVars, beaconVars, gwVars, rateVars, sessionVars >>

notRate == << codecVars, cryptVars, beaconVars, gwVars, maskVars, sessionVars >>

\* the variables the data-rate backoff and the EndDevice leave alone
notBackoff == << codecVars, cryptVars, beaconVars, tableVars, deviceVars >>

notDevice == << codecVars, cryptVars, beaconVars, tableVars, backoffVars >>

(***************************************************************************)
(* Bounds of the model.                                                    *)
(***************************************************************************)
MaxFrameLen == 34   \* longest buffer handed to from_bytes (1 + 28 + 4, plus one)

MaxPayloadLen == 33 \* longest FRMPayload handed to crypt (two blocks, plus one byte)

MaxBeaconLen == 24  \* longest buffer handed to parse_beacon (the SF12 beacon, plus one)

MaxApplies == 2     \* channel_mask_apply is called at most this many times in a row
MaxRequests == 3    \* LinkADRReq in one run of requests
MaxDeviceSteps == 3 \* calls made on one EndDevice
MaxBackoffSteps == 16  \* applications of backoff_data_rate that are told apart

(***************************************************************************)
(* Bit operations on bytes.                                                *)
(***************************************************************************)
RECURSIVE XorBits(_, _, _)
XorBits(a, b, n) ==
  IF n = 0 THEN 0
  ELSE (((a % 2) + (b % 2)) % 2) + 2 * XorBits(a \div 2, b \div 2, n - 1)

Xor4 == [a \in 0..15 |-> [b \in 0..15 |-> XorBits(a, b, 4)]]

Xor8(a, b) == 16 * Xor4[a \div 16][b \div 16] + Xor4[a % 16][b % 16]

\* a ^ b on equally long byte strings; "\o <<>>" materialises the sequence
XorSeq(a, b) == [i \in 1..Len(a) |-> Xor8(a[i], b[i])] \o <<>>

Zeros(n) == [i \in 1..n |-> 0] \o <<>>

(***************************************************************************)
(* AES-128 block encryption (crate aes, Aes128), FIPS-197.                 *)
(***************************************************************************)
SBox ==
  <<
     99, 124, 119, 123, 242, 107, 111, 197,  48,   1, 103,  43, 254, 215, 171, 118,
    202, 130, 201, 125, 250,  89,  71, 240, 173, 212, 162, 175, 156, 164, 114, 192,
    183, 253, 147,  38,  54,  63, 247, 204,  52, 165, 229, 241, 113, 216,  49,  21,
      4, 199,  35, 195,  24, 150,   5, 154,   7,  18, 128, 226, 235,  39, 178, 117,
      9, 131,  44,  26,  27, 110,  90, 160,  82,  59, 214, 179,  41, 227,  47, 132,
     83, 209,   0, 237,  32, 252, 177,  91, 106, 203, 190,  57,  74,  76,  88, 207,
    208, 239, 170, 251,  67,  77,  51, 133,  69, 249,   2, 127,  80,  60, 159, 168,
     81, 163,  64, 143, 146, 157,  56, 245, 188, 182, 218,  33,  16, 255, 243, 210,
    205,  12,  19, 236,  95, 151,  68,  23, 196, 167, 126,  61, 100,  93,  25, 115,
     96, 129,  79, 220,  34,  42, 144, 136,  70, 238, 184,  20, 222,  94,  11, 219,
    224,  50,  58,  10,  73,   6,  36,  92, 194, 211, 172,  98, 145, 149, 228, 121,
    231, 200,  55, 109, 141, 213,  78, 169, 108,  86, 244, 234, 101, 122, 174,   8,
    186, 120,  37,  46,  28, 166, 180, 198, 232, 221, 116,  31,  75, 189, 139, 138,
    112,  62, 181, 102,  72,   3, 246,  14,  97,  53,  87, 185, 134, 193,  29, 158,
    225, 248, 152,  17, 105, 217, 142, 148, 155,  30, 135, 233, 206,  85,  40, 223,
    140, 161, 137,  13, 191, 230,  66, 104,  65, 153,  45,  15, 176,  84, 187,  22
  >>

\* multiplication by x in GF(2^8) modulo x^8 + x^4 + x^3 + x + 1
xtime(a) == IF a < 128 THEN 2 * a ELSE Xor8((2 * a) % 256, 27)

\* w: the key schedule so far (bytes), i: the next word, rc: the round constant
RECURSIVE ExpandKey(_, _, _)
ExpandKey(w, i, rc) ==
  IF i = 44 THEN w
  ELSE LET p(k) == w[4 * (i - 1) + k]
           q(k) == w[4 * (i - 4) + k]
           t == IF i % 4 = 0
                THEN << Xor8(SBox[p(2) + 1], rc), SBox[p(3) + 1],
                        SBox[p(4) + 1], SBox[p(1) + 1] >>
                ELSE << p(1), p(2), p(3), p(4) >>
       IN ExpandKey(w \o << Xor8(q(1), t[1]), Xor8(q(2), t[2]),
                           Xor8(q(3), t[3]), Xor8(q(4), t[4]) >>,
                    i + 1, IF i % 4 = 0 THEN xtime(rc) ELSE rc)

RoundKey(w, r) == SubSeq(w, 16 * r + 1, 16 * r + 16)

SubBytes(s) == [i \in 1..16 |-> SBox[s[i] + 1]] \o <<>>

ShiftRows(s) == [i \in 1..16 |-> s[((i - 1 + 4 * ((i - 1) % 4)) % 16) + 1]] \o <<>>

MixColumns(s) ==
  [i \in 1..16 |->
     LET c == (i - 1) \div 4
         r == (i - 1) % 4
         a0 == s[4 * c + r + 1]
         a1 == s[4 * c + ((r + 1) % 4) + 1]
         a2 == s[4 * c + ((r + 2) % 4) + 1]
         a3 == s[4 * c + ((r + 3) % 4) + 1]
     IN Xor8(Xor8(xtime(a0), Xor8(xtime(a1), a1)), Xor8(a2, a3))] \o <<>>

\* rounds r..10 on the 16-byte state s
RECURSIVE Rounds(_, _, _)
Rounds(s, w, r) ==
  IF Len(s) = 16 /\ r = 10
  THEN XorSeq(ShiftRows(SubBytes(s)), RoundKey(w, 10))
  ELSE Rounds(XorSeq(MixColumns(ShiftRows(SubBytes(s))), RoundKey(w, r)), w, r + 1)

Aes128Encrypt(k, blk) ==
  LET w == ExpandKey(k, 4, 1) IN Rounds(XorSeq(blk, RoundKey(w, 0)), w, 1)

(***************************************************************************)
(* AES-CMAC (crate cmac, Cmac<Aes128>), RFC 4493.                          *)
(***************************************************************************)
\* multiplication by x in GF(2^128), big-endian
Dbl(b) ==
  LET sh == [i \in 1..16 |->
               ((2 * b[i]) % 256) + (IF i < 16 THEN b[i + 1] \div 128 ELSE 0)] \o <<>>
  IN IF b[1] >= 128 THEN [sh EXCEPT ![16] = Xor8(sh[16], 135)] ELSE sh

\* the CBC chain over the first i complete blocks of msg
RECURSIVE CbcChain(_, _, _)
CbcChain(k, msg, i) ==
  IF i = 0 THEN Zeros(16)
  ELSE Aes128Encrypt(k, XorSeq(CbcChain(k, msg, i - 1),
                               SubSeq(msg, 16 * (i - 1) + 1, 16 * i)))

aes128_cmac(k, msg) ==
  LET L == Aes128Encrypt(k, Zeros(16))
      K1 == Dbl(L)
      K2 == Dbl(K1)
      n == IF Len(msg) = 0 THEN 1 ELSE (Len(msg) + 15) \div 16
      complete == Len(msg) > 0 /\ Len(msg) % 16 = 0
      tail == SubSeq(msg, 16 * (n - 1) + 1, Len(msg))
      last == IF complete
              THEN XorSeq(tail, K1)
              ELSE XorSeq(tail \o <<128>> \o Zeros(15 - Len(tail)), K2)
  IN Aes128Encrypt(k, XorSeq(CbcChain(k, msg, n - 1), last))

(***************************************************************************)
(* Slices and panics.                                                      *)
(***************************************************************************)
NotCalled == [tag |-> "NotCalled"]

Panic(why) == [tag |-> "Panic", why |-> why]

\* the caller's buffer as a slice
AsSlice(b) == [tag |-> "Slice", off |-> 0, data |-> b]

\* &s[lo..hi]: panics when lo > hi or hi > s.len() (a panic upstream stays one)
Index(s, lo, hi) ==
  IF s.tag = "Panic" THEN s
  ELSE IF 0 <= lo /\ lo <= hi /\ hi <= Len(s.data)
  THEN [tag |-> "Slice", off |-> s.off + lo, data |-> SubSeq(s.data, lo + 1, hi)]
  ELSE Panic("index")

\* &s[lo..]
IndexFrom(s, lo) == IF s.tag = "Panic" THEN s ELSE Index(s, lo, Len(s.data))

AnyPanic(t) == \E i \in 1..Len(t) : t[i].tag = "Panic"

(***************************************************************************)
(* MHDR: ftype is bits 0..2, rfu bits 3..5, major bits 6..7.               *)
(***************************************************************************)
FrameType ==
  << "JoinRequest", "JoinAccept", "UnconfirmedDataUplink", "UnconfirmedDataDownlink",
     "ConfirmedDataUplink", "ConfirmedDataDownlink", "Rfu", "Proprietary" >>

MacHeader_from_bytes(b) == [tag |-> "MacHeader", byte |-> b[1]]

ftype(mh) == FrameType[(mh.byte % 8) + 1]

rfu(mh) == (mh.byte \div 8) % 8

major(mh) == mh.byte \div 64

(***************************************************************************)
(* PhyPayload<T, S>.                                                       *)
(***************************************************************************)
\* mutant of from_bytes: the sizes of the payload and the MIC are left out of need
from_bytes_Short_Mutant(b) ==
  LET have == Len(b)
      need == 1
  IN IF have < need
     THEN [tag |-> "Err", err |-> "SmallerThanMinSize", have |-> have, need |-> need]
     ELSE [tag |-> "Ok", state |-> "Encrypted", bytes |-> AsSlice(b)]

\* mutant of from_bytes: the size test off by one (have <= need)
from_bytes_Mutant(b) ==
  LET have == Len(b)
      need == 1 + 7 + 4
  IN IF have <= need
     THEN [tag |-> "Err", err |-> "SmallerThanMinSize", have |-> have, need |-> need]
     ELSE [tag |-> "Ok", state |-> "Encrypted", bytes |-> AsSlice(b)]

from_bytes(b) ==
  LET have == Len(b)
      need == 1 + 7 + 4
  IN IF have < need
     THEN [tag |-> "Err", err |-> "SmallerThanMinSize", have |-> have, need |-> need]
     ELSE [tag |-> "Ok", state |-> "Encrypted", bytes |-> AsSlice(b)]

mac_header(f) ==
  LET s == Index(f.bytes, 0, 1)
  IN IF s.tag = "Panic" THEN s ELSE MacHeader_from_bytes(s.data)

\* mutant of payload_bytes: the payload view runs one byte into the MIC
payload_bytes_Mutant(f) ==
  LET end == Len(f.bytes.data) - 3
  IN IF end < 0 THEN Panic("overflow") ELSE Index(f.bytes, 1, end)

payload_bytes(f) ==
  LET end == Len(f.bytes.data) - 4
  IN IF end < 0 THEN Panic("overflow") ELSE Index(f.bytes, 1, end)

mic(f) ==
  LET start == Len(f.bytes.data) - 4
  IN IF start < 0 THEN Panic("overflow") ELSE Index(f.bytes, start, Len(f.bytes.data))

JoinRequest_from_bytes(b) ==
  LET need == 8 + 8 + 2
      have == Len(b.data)
  IN IF have # need
     THEN [tag |-> "Err", err |-> "SizeMismatch", have |-> have, need |-> need]
     ELSE [tag |-> "Ok", bytes |-> b]

\* mutant of JoinAccept_from_bytes: only the size without CFList is accepted
JoinAccept_from_bytes_Mutant(b) ==
  LET need1 == 3 + 3 + 4 + 1 + 1
      have == Len(b.data)
  IN IF need1 # have
     THEN [tag |-> "Err", err |-> "SizeMismatch", have |-> have]
     ELSE [tag |-> "Ok", bytes |-> b]

JoinAccept_from_bytes(b) ==
  LET need1 == 3 + 3 + 4 + 1 + 1
      need2 == need1 + 16
      have == Len(b.data)
  IN IF need1 # have /\ need2 # have
     THEN [tag |-> "Err", err |-> "SizeMismatch", have |-> have]
     ELSE [tag |-> "Ok", bytes |-> b]

\* `?` on the sub-parser's result, wrapped by From<...ParseError>
Wrap(kind, r) ==
  IF r.tag = "Err"
  THEN [tag |-> "Err", err |-> kind \o "ParseError", inner |-> r]
  ELSE [tag |-> "Ok", kind |-> kind, bytes |-> r.bytes]

payload(f) ==
  LET mh == mac_header(f)
  IN IF mh.tag = "Panic" THEN mh
     ELSE IF major(mh) # 0
     THEN [tag |-> "Err", err |-> "UnknownMajor", major |-> major(mh)]
     ELSE LET b == payload_bytes(f)
          IN IF b.tag = "Panic" THEN b
             ELSE CASE ftype(mh) = "JoinRequest" -> Wrap("JoinRequest", JoinRequest_from_bytes(b))
                    [] ftype(mh) = "JoinAccept" -> Wrap("JoinAccept", JoinAccept_from_bytes(b))
                    [] OTHER -> [tag |-> "Ok", kind |-> "MacPayload", bytes |-> b]

cf_list(ja) ==
  LET need == 3 + 3 + 4 + 1 + 1
  IN IF Len(ja.bytes.data) # need
     THEN [tag |-> "None"]
     ELSE LET s == Index(ja.bytes, need, Len(ja.bytes.data))
          IN IF s.tag = "Panic" THEN s ELSE [tag |-> "Some", slice |-> s]

\* mutant of CmacPrefix: the MAC runs over the whole buffer, the wire MIC included
CmacPrefix_Mutant(f, app_key) ==
  IF Len(app_key) # 16 THEN Panic("unwrap")
  ELSE [tag |-> "Mic", data |-> SubSeq(aes128_cmac(app_key, f.bytes.data), 1, 4)]

\* Cmac::new_from_slice(app_key).unwrap(); update(&bytes[..end]); finalize()[..4]
CmacPrefix(f, app_key) ==
  IF Len(app_key) # 16 THEN Panic("unwrap")
  ELSE LET end == Len(f.bytes.data) - 4
       IN IF end < 0 THEN Panic("overflow")
          ELSE LET s == Index(f.bytes, 0, end)
               IN IF s.tag = "Panic" THEN s
                  ELSE [tag |-> "Mic", data |-> SubSeq(aes128_cmac(app_key, s.data), 1, 4)]

mic_expected(f, app_key) ==
  LET mhdr == mac_header(f)
  IN IF mhdr.tag = "Panic" THEN mhdr
     ELSE CASE ftype(mhdr) = "JoinRequest" -> CmacPrefix(f, app_key)
            [] ftype(mhdr) = "JoinAccept" -> CmacPrefix(f, app_key)
            [] OTHER -> Panic("todo")

(***************************************************************************)
(* FRMPayload encryption, as the MacPayload doc comment "Encryption"       *)
(* defines it (the repository holds no implementation of it).              *)
(***************************************************************************)
frame_port_key(frame_port) == IF frame_port = 0 THEN "NwkSKey" ELSE "AppSKey"

\* a u32 is kept as its two 16-bit halves: the value is 65536 * hi + lo
U32(hi, lo) == [hi |-> hi, lo |-> lo]

\* a u32 as 4 little-endian bytes
Le32(v) == << v.lo % 256, v.lo \div 256, v.hi % 256, v.hi \div 256 >>

\* A_i = 0x01 | 4 * 0x00 | Dir | DevAddr | FCnt | 0x00 | i
BlockA(i, dir, dev_addr, fcnt) ==
  << 1, 0, 0, 0, 0, dir >> \o Le32(dev_addr) \o Le32(fcnt) \o << 0, i >>

\* S = S_1 | S_2 | ... | S_k with S_i = aes128_ecb(K, A_i)
RECURSIVE KeyStream(_, _, _, _, _)
KeyStream(K, dir, dev_addr, fcnt, k) ==
  IF k = 0 THEN <<>>
  ELSE KeyStream(K, dir, dev_addr, fcnt, k - 1)
         \o Aes128Encrypt(K, BlockA(k, dir, dev_addr, fcnt))

\* mutant of crypt: the block counter i stays at 1, so S_1 is used for every block
crypt_Mutant(plain, K, dir, dev_addr, fcnt) ==
  LET S1 == Aes128Encrypt(K, BlockA(1, dir, dev_addr, fcnt))
  IN [j \in 1..Len(plain) |-> Xor8(plain[j], S1[((j - 1) % 16) + 1])] \o <<>>

\* frame_payload = ((plaintext_payload | pad_16) ^ S)[0..plaintext_payload.len()]
crypt(plain, K, dir, dev_addr, fcnt) ==
  LET k == (Len(plain) + 15) \div 16
      S == KeyStream(K, dir, dev_addr, fcnt, k)
      pad == plain \o Zeros(16 * k - Len(plain))
  IN SubSeq(XorSeq(pad, S), 1, Len(plain))

(***************************************************************************)
(* Beacon sizes (Sf) and the beacon codec.                                 *)
(***************************************************************************)
\* enum Sf: _8, _9, _10, _11, _12
Sf == 8..12

BEACON_BASE_SIZE == 1 + 4 + 2 + 7 + 2

beacon_rfu1_bytes(s) ==
  CASE s = 8 -> 0 [] s = 9 -> 1 [] s = 10 -> 2 [] s = 11 -> 3 [] s = 12 -> 4

\* mutant of beacon_rfu2_bytes: the SF8 entry is 0 instead of 3
beacon_rfu2_bytes_Mutant(s) ==
  CASE s = 8 -> 0 [] s = 9 -> 0 [] s = 10 -> 1 [] s = 11 -> 2 [] s = 12 -> 3

beacon_rfu2_bytes(s) ==
  CASE s = 8 -> 3 [] s = 9 -> 0 [] s = 10 -> 1 [] s = 11 -> 2 [] s = 12 -> 3

beacon_bytes(s) == BEACON_BASE_SIZE + beacon_rfu1_bytes(s) + beacon_rfu2_bytes(s)

Xor16(a, b) == 256 * Xor8(a \div 256, b \div 256) + Xor8(a % 256, b % 256)

\* n shifts of the CRC register, polynomial x^16 + x^12 + x^5 + 1
RECURSIVE CrcShift(_, _)
CrcShift(c, n) ==
  IF n = 0 THEN c
  ELSE IF c >= 32768
  THEN CrcShift(Xor16((2 * c) % 65536, 4129), n - 1)
  ELSE CrcShift(2 * c, n - 1)

RECURSIVE CrcUpdate(_, _, _)
CrcUpdate(c, data, i) ==
  IF i > Len(data) THEN c
  ELSE CrcUpdate(CrcShift(Xor16(c, 256 * data[i]), 8), data, i + 1)

\* mutant of checksum: the last byte of the region is left out
checksum_Mutant(data) == CrcUpdate(0, SubSeq(data, 1, Len(data) - 1), 1)

\* CRC_16_LORA.checksum: initial value 0, no reflection, no final xor
checksum(data) == CrcUpdate(0, data, 1)

u16_from_le_bytes(b) == b[1] + 256 * b[2]

\* mutant of u32_from_le_bytes: the bytes are read most significant first
u32_from_le_bytes_Mutant(b) == U32(b[2] + 256 * b[1], b[4] + 256 * b[3])

u32_from_le_bytes(b) == U32(b[3] + 256 * b[4], b[1] + 256 * b[2])

\* mutant of u24_from_le_bytes: the bytes are read most significant first
u24_from_le_bytes_Mutant(b) == 65536 * b[1] + 256 * b[2] + b[3]

u24_from_le_bytes(b) == 65536 * b[3] + 256 * b[2] + b[1]

InfoDesc_from_byte(info_desc) ==
  CASE info_desc = 0 -> [kind |-> "GpsCoordinate", antenna |-> "First"]
    [] info_desc = 1 -> [kind |-> "GpsCoordinate", antenna |-> "Second"]
    [] info_desc = 2 -> [kind |-> "GpsCoordinate", antenna |-> "Third"]
    [] info_desc = 3 -> [kind |-> "NetIdAndGatewayId"]
    [] info_desc \in 4..127 -> [kind |-> "Rfu", info_desc |-> info_desc]
    [] info_desc \in 128..255 -> [kind |-> "NetworkSpecific", info_desc |-> info_desc]

GwSpecificKind_from_bytes(b) ==
  LET n == InfoDesc_from_byte(b[1])
  IN CASE n.kind = "GpsCoordinate" ->
            [kind |-> "Gps", antenna |-> n.antenna,
             lat |-> u24_from_le_bytes(SubSeq(b, 2, 4)),
             long |-> u24_from_le_bytes(SubSeq(b, 5, 7))]
       [] n.kind = "NetworkSpecific" ->
            [kind |-> "NetworkSpecific", info_desc |-> n.info_desc,
             info |-> SubSeq(b, 2, 7)]
       [] n.kind = "NetIdAndGatewayId" ->
            [kind |-> "NetIdAndGatewayId",
             net_id |-> u24_from_le_bytes(SubSeq(b, 2, 4)),
             gateway_id |-> u24_from_le_bytes(SubSeq(b, 5, 7))]
       [] n.kind = "Rfu" ->
            [kind |-> "Rfu", info_desc |-> n.info_desc, info |-> SubSeq(b, 2, 7)]

parse_beacon(s, b) ==
  LET need == beacon_bytes(s)
      actual == Len(b)
  IN IF actual # need
     THEN [tag |-> "Err", err |-> "WrongSize", need |-> need, actual |-> actual]
     ELSE
       LET all == AsSlice(b)
           rfu1_bytes_ct == beacon_rfu1_bytes(s)
           rfu1_bytes == Index(all, 0, rfu1_bytes_ct)
           rem1 == IndexFrom(all, rfu1_bytes_ct)
           param == Index(rem1, 0, 1)
           rem2 == IndexFrom(rem1, 1)
           time == Index(rem2, 0, 4)
           rem3 == IndexFrom(rem2, 4)
           crc1 == Index(rem3, 0, 2)
           rem4 == IndexFrom(rem3, 2)
           crc1_end == rfu1_bytes_ct + 1 + 4
           crc1_region == Index(all, 0, crc1_end)
           gw == Index(rem4, 0, 7)
           rem5 == IndexFrom(rem4, 7)
           rfu2_bytes_ct == beacon_rfu2_bytes(s)
           rfu2_bytes == Index(rem5, 0, rfu2_bytes_ct)
           rem6 == IndexFrom(rem5, rfu2_bytes_ct)
           crc2_start == crc1_end + 2
           crc2_end == crc2_start + 7 + rfu2_bytes_ct
           crc2_region == Index(all, crc2_start, crc2_end)
       IN IF AnyPanic(<< rfu1_bytes, param, time, crc1, rem4, crc1_region >>)
          THEN Panic("index")
          ELSE IF u16_from_le_bytes(crc1.data) # checksum(crc1_region.data)
          THEN [tag |-> "Err", err |-> "Crc1Wrong"]
          ELSE IF AnyPanic(<< gw, rfu2_bytes, rem6 >>)
          THEN Panic("index")
          ELSE IF Len(rem6.data) # 2
          THEN Panic("unwrap")
          ELSE IF crc2_region.tag = "Panic"
          THEN Panic("index")
          ELSE IF u16_from_le_bytes(rem6.data) # checksum(crc2_region.data)
          THEN [tag |-> "Err", err |-> "Crc2Wrong"]
          ELSE [tag |-> "Ok",
                beacon |-> [param |-> [byte |-> param.data[1]],
                            time |-> u32_from_le_bytes(time.data),
                            gw_specific |-> GwSpecificKind_from_bytes(gw.data)]]

(***************************************************************************)
(* Band rules: channel masks (parameters/eu863.rs, parameters/us915.rs).   *)
(* A u128 is the sequence of its 128 bits, bit 0 first.                    *)
(***************************************************************************)
\* v as u128, for a u16 v
u16_as_u128(v) == [i \in 1..128 |-> IF i <= 16 THEN (v \div (2 ^ (i - 1))) % 2 ELSE 0] \o << >>

\* u16::MAX as u128
U16_MAX_as_u128 == [i \in 1..128 |-> IF i <= 16 THEN 1 ELSE 0] \o << >>

\* mutant of U64_MAX_as_u128: bit 63 is clear
U64_MAX_as_u128_Mutant == [i \in 1..128 |-> IF i <= 63 THEN 1 ELSE 0] \o << >>

\* u64::MAX as u128
U64_MAX_as_u128 == [i \in 1..128 |-> IF i <= 64 THEN 1 ELSE 0] \o << >>

\* mutant of U128_MAX: bit 127 is clear
U128_MAX_Mutant == [i \in 1..128 |-> IF i <= 127 THEN 1 ELSE 0] \o << >>

\* u128::MAX
U128_MAX == [i \in 1..128 |-> 1] \o << >>

\* 0 as u128
U128_ZERO == [i \in 1..128 |-> 0] \o << >>

\* a & b, a | b on u128
BitAnd128(a, b) == [i \in 1..128 |-> a[i] * b[i]] \o << >>

BitOr128(a, b) == [i \in 1..128 |-> IF a[i] = 1 \/ b[i] = 1 THEN 1 ELSE 0] \o << >>

\* a << n on u128, for n < 128
Shl128(a, n) == [i \in 1..128 |-> IF i > n THEN a[i - n] ELSE 0] \o << >>

\* a & b on the low n bits of two integers
RECURSIVE AndBits(_, _, _)
AndBits(a, b, n) ==
  IF n = 0 THEN 0
  ELSE ((a % 2) * (b % 2)) + 2 * AndBits(a \div 2, b \div 2, n - 1)

\* mutant of Eu868_channel_mask_apply: the RFU value 5 is accepted like 6
Eu868_channel_mask_apply_Mutant(channel_mask_cntl, channel_mask, current_channel_mask) ==
  CASE channel_mask_cntl = 0 ->
         [tag |-> "Ok",
          mask |-> BitOr128(BitAnd128(current_channel_mask, U16_MAX_as_u128),
                            u16_as_u128(channel_mask))]
    [] channel_mask_cntl \in 1..4 -> [tag |-> "Err"]
    [] channel_mask_cntl \in 5..6 -> [tag |-> "Ok", mask |-> U128_MAX]
    [] channel_mask_cntl \in 7..255 -> [tag |-> "Err"]

\* mutant of Eu868_channel_mask_apply: the arm 0 stores the channel mask in place
\* of the low 16 bits
Eu868_channel_mask_apply_Store_Mutant(channel_mask_cntl, channel_mask, current_channel_mask) ==
  CASE channel_mask_cntl = 0 -> [tag |-> "Ok", mask |-> u16_as_u128(channel_mask)]
    [] channel_mask_cntl \in 1..5 -> [tag |-> "Err"]
    [] channel_mask_cntl = 6 -> [tag |-> "Ok", mask |-> U128_MAX]
    [] channel_mask_cntl \in 7..255 -> [tag |-> "Err"]

\* mutant of Eu868_channel_mask_apply: the arm 0 toggles the bits of the channel mask
Eu868_channel_mask_apply_Toggle_Mutant(channel_mask_cntl, channel_mask, current_channel_mask) ==
  CASE channel_mask_cntl = 0 ->
         [tag |-> "Ok",
          mask |-> [i \in 1..128 |->
                      (BitAnd128(current_channel_mask, U16_MAX_as_u128)[i]
                         + u16_as_u128(channel_mask)[i]) % 2] \o << >>]
    [] channel_mask_cntl \in 1..5 -> [tag |-> "Err"]
    [] channel_mask_cntl = 6 -> [tag |-> "Ok", mask |-> U128_MAX]
    [] channel_mask_cntl \in 7..255 -> [tag |-> "Err"]

Eu868_channel_mask_apply(channel_mask_cntl, channel_mask, current_channel_mask) ==
  CASE channel_mask_cntl = 0 ->
         [tag |-> "Ok",
          mask |-> BitOr128(BitAnd128(current_channel_mask, U16_MAX_as_u128),
                            u16_as_u128(channel_mask))]
    [] channel_mask_cntl \in 1..5 -> [tag |-> "Err"]
    [] channel_mask_cntl = 6 -> [tag |-> "Ok", mask |-> U128_MAX]
    [] channel_mask_cntl \in 7..255 -> [tag |-> "Err"]

\* the loop `for i in 0..7` of the arm 5, from index i on
RECURSIVE Us915_groups(_, _, _)
Us915_groups(mask, channel_mask, i) ==
  IF i >= 7 \/ Len(mask) # 128 THEN mask
  ELSE LET shift == i * 16
           m == Shl128(U16_MAX_as_u128, shift)
       IN Us915_groups(IF AndBits(i, channel_mask, 16) # 0
                       THEN BitOr128(mask, m)
                       ELSE BitAnd128(mask, m),
                       channel_mask, i + 1)

Us915_channel_mask_apply(channel_mask_cntl, channel_mask, current_channel_mask) ==
  CASE channel_mask_cntl \in 0..4 ->
         LET shift == (channel_mask_cntl * 16) % 256
             mask == BitAnd128(current_channel_mask, Shl128(U16_MAX_as_u128, shift))
         IN [tag |-> "Ok",
             mask |-> BitOr128(mask, Shl128(u16_as_u128(channel_mask), shift))]
    [] channel_mask_cntl = 5 ->
         [tag |-> "Ok", mask |-> Us915_groups(current_channel_mask, channel_mask, 0)]
    [] channel_mask_cntl \in 6..7 ->
         LET mask_125khz == IF channel_mask_cntl = 6 THEN U64_MAX_as_u128 ELSE U128_ZERO
         IN [tag |-> "Ok",
             mask |-> BitOr128(mask_125khz, Shl128(u16_as_u128(channel_mask), 64))]
    [] channel_mask_cntl \in 8..255 -> [tag |-> "Err"]

\* Band::channel_mask_apply, by the band that implements it
channel_mask_apply(band, channel_mask_cntl, channel_mask, current_channel_mask) ==
  IF band = "Eu868"
  THEN Eu868_channel_mask_apply(channel_mask_cntl, channel_mask, current_channel_mask)
  ELSE Us915_channel_mask_apply(channel_mask_cntl, channel_mask, current_channel_mask)

(***************************************************************************)
(* Band rules: data-rate tables.  A DataRate is its index 0..15.           *)
(***************************************************************************)
\* DataRate::try_from(value: u8)
DataRate_try_from(value) ==
  IF value \in 0..15 THEN [tag |-> "Ok", dr |-> value] ELSE [tag |-> "Err"]

\* Some(x.try_into().unwrap()) for a table entry x
SomeDataRate(x) ==
  LET r == DataRate_try_from(x)
  IN IF r.tag = "Ok" THEN [tag |-> "Some", dr |-> r.dr] ELSE Panic("unwrap")

None == [tag |-> "None"]

\* mutant of Eu868_backoff_data_rate: the table ends one row early
Eu868_backoff_data_rate_Mutant(dr_current) ==
  IF dr_current \in 0..10
  THEN SomeDataRate(<< 0, 1, 1, 2, 3, 4, 5, 6, 0, 8, 0, 10 >>[dr_current + 1])
  ELSE None

\* Table 9: EU863-870 Data Rate Backoff table
Eu868_backoff_data_rate(dr_current) ==
  IF dr_current \in 0..11
  THEN SomeDataRate(<< 0, 1, 1, 2, 3, 4, 5, 6, 0, 8, 0, 10 >>[dr_current + 1])
  ELSE None

Us915_backoff_data_rate(dr_current) ==
  IF dr_current \in 0..6
  THEN SomeDataRate(<< 0, 0, 1, 2, 3, 0, 5 >>[dr_current + 1])
  ELSE None

backoff_data_rate(band, dr_current) ==
  IF band = "Eu868" THEN Eu868_backoff_data_rate(dr_current)
  ELSE Us915_backoff_data_rate(dr_current)

\* slice::get(index)
Get(v, index) == IF index < Len(v) THEN [tag |-> "Some", val |-> v[index + 1]] ELSE None

\* Table 14: EU863-870 downlink RX1 data rate mapping
Eu868_DR_MAP ==
  << << 0, 0, 0, 0, 0, 0 >>,
     << 1, 0, 0, 0, 0, 0 >>,
     << 2, 1, 0, 0, 0, 0 >>,
     << 3, 2, 1, 0, 0, 0 >>,
     << 4, 3, 2, 1, 0, 0 >>,
     << 5, 4, 3, 2, 1, 0 >>,
     << 6, 5, 4, 3, 2, 1 >>,
     << 7, 6, 5, 4, 3, 2 >>,
     << 1, 0, 0, 0, 0, 0 >>,
     << 2, 1, 0, 0, 0, 0 >>,
     << 1, 0, 0, 0, 0, 0 >>,
     << 2, 1, 0, 0, 0, 0 >> >>

\* mutant of Us915_DR_MAP: the last row is missing
Us915_DR_MAP_Mutant ==
  << << 10, 9, 8, 8 >>,
     << 11, 10, 9, 8 >>,
     << 12, 11, 10, 9 >>,
     << 13, 12, 11, 10 >>,
     << 13, 13, 12, 11 >>,
     << 10, 9, 8, 8 >> >>

Us915_DR_MAP ==
  << << 10, 9, 8, 8 >>,
     << 11, 10, 9, 8 >>,
     << 12, 11, 10, 9 >>,
     << 13, 12, 11, 10 >>,
     << 13, 13, 12, 11 >>,
     << 10, 9, 8, 8 >>,
     << 11, 10, 9, 8 >> >>

\* DR_MAP.get(upstream_datarate).and_then(|v| v.get(rx1_dr_offset)).copied().map(..)
Lookup2(DR_MAP, upstream_datarate, rx1_dr_offset) ==
  LET row == Get(DR_MAP, upstream_datarate)
      x == IF row.tag = "Some" THEN Get(row.val, rx1_dr_offset) ELSE None
  IN IF x.tag = "Some" THEN SomeDataRate(x.val) ELSE None

Eu868_rx1_window_data_rate(upstream_datarate, rx1_dr_offset) ==
  Lookup2(Eu868_DR_MAP, upstream_datarate, rx1_dr_offset)

Us915_rx1_window_data_rate(upstream_datarate, rx1_dr_offset) ==
  Lookup2(Us915_DR_MAP, upstream_datarate, rx1_dr_offset)

rx1_window_data_rate(band, upstream_datarate, rx1_dr_offset) ==
  IF band = "Eu868" THEN Eu868_rx1_window_data_rate(upstream_datarate, rx1_dr_offset)
  ELSE Us915_rx1_window_data_rate(upstream_datarate, rx1_dr_offset)

\* Some(n) for a table entry n: u8
SomeU8(n) == [tag |-> "Some", val |-> n]

Eu868_maximum_payload_size(data_rate) ==
  IF data_rate \in 0..11
  THEN SomeU8(<< 59, 59, 59, 123, 230, 230, 230, 230, 58, 123, 58, 123 >>[data_rate + 1])
  ELSE None

Eu868_maximum_payload_size_absent_repeaters(data_rate) ==
  IF data_rate \in 0..11
  THEN SomeU8(<< 59, 59, 59, 123, 250, 250, 250, 250, 58, 123, 58, 123 >>[data_rate + 1])
  ELSE None

Us915_maximum_payload_size(data_rate) ==
  IF data_rate \in 0..6
  THEN SomeU8(<< 19, 61, 133, 230, 230, 58, 133 >>[data_rate + 1])
  ELSE IF data_rate \in 8..13
  THEN SomeU8(<< 61, 137, 230, 230, 230, 230 >>[data_rate - 7])
  ELSE None

\* mutant of Us915_maximum_payload_size_absent_repeaters: data rate 7 has an entry
Us915_maximum_payload_size_absent_repeaters_Mutant(data_rate) ==
  IF data_rate \in 0..7
  THEN SomeU8(<< 19, 61, 133, 250, 250, 58, 133, 133 >>[data_rate + 1])
  ELSE IF data_rate \in 8..13
  THEN SomeU8(<< 61, 137, 250, 250, 250, 250 >>[data_rate - 7])
  ELSE None

Us915_maximum_payload_size_absent_repeaters(data_rate) ==
  IF data_rate \in 0..6
  THEN SomeU8(<< 19, 61, 133, 250, 250, 58, 133 >>[data_rate + 1])
  ELSE IF data_rate \in 8..13
  THEN SomeU8(<< 61, 137, 250, 250, 250, 250 >>[data_rate - 7])
  ELSE None

maximum_payload_size(band, data_rate) ==
  IF band = "Eu868" THEN Eu868_maximum_payload_size(data_rate)
  ELSE Us915_maximum_payload_size(data_rate)

maximum_payload_size_absent_repeaters(band, data_rate) ==
  IF band = "Eu868" THEN Eu868_maximum_payload_size_absent_repeaters(data_rate)
  ELSE Us915_maximum_payload_size_absent_repeaters(data_rate)

\* EU863_CHANNELS, the downstream (and upstream) channels of EU868
EU863_CHANNELS ==
  << [bandwidth |-> 125, frequency |-> 868100, data_rate_min |-> 0, data_rate_max |-> 5],
     [bandwidth |-> 125, frequency |-> 868300, data_rate_min |-> 0, data_rate_max |-> 5],
     [bandwidth |-> 125, frequency |-> 868500, data_rate_min |-> 0, data_rate_max |-> 5] >>

\* US915_CHANNELS.downstream
US915_CHANNELS_downstream ==
  [first_channel |-> 923300, channel_step |-> 600, count |-> 8, bandwidth |-> 600,
   data_rate_max |-> 13, data_rate_min |-> 8]

\* the (min, max) data rates of every downstream channel of the band
downstream_data_rates(band) ==
  IF band = "Eu868"
  THEN { << EU863_CHANNELS[i].data_rate_min, EU863_CHANNELS[i].data_rate_max >> :
           i \in 1..Len(EU863_CHANNELS) }
  ELSE { << US915_CHANNELS_downstream.data_rate_min,
            US915_CHANNELS_downstream.data_rate_max >> }

\* rx2 fixed frequency and datarate
rx2_window_details(band) ==
  IF band = "Eu868"
  THEN [tag |-> "Returned", frequency |-> 869525, data_rate |-> 0]
  ELSE [tag |-> "Returned", frequency |-> 923300, data_rate |-> 0]

(***************************************************************************)
(* The end device (src/src/lib.rs): band selection and MAC requests.       *)
(***************************************************************************)
\* Some(band_id) for a BandId
SomeBandId(id) == [tag |-> "Some", val |-> id]

\* EndDevice::default()
EndDevice_default ==
  [band_id |-> None,
   frame_count_uplink |-> 0,
   adr_ack_cnt |-> 0,
   class_b_resp_timeout |-> 1,
   receive_delay1 |-> 1,
   previous_transmit_time |-> None,
   num_transmits |-> 0,
   maximum_tx_power |-> None,
   uplink_channel_mask |-> U128_MAX,
   max_duty_cycle |-> 0]

\* EndDevice::band(): the band rules of the selected band, if any
band(self) ==
  IF self.band_id = SomeBandId("US915") THEN [tag |-> "Some", val |-> "Us915"] ELSE None

\* EndDevice::set_band_id()
set_band_id(self, band_id) == [self EXCEPT !.band_id = band_id]

\* EndDevice::send_mac_answer(): todo!()
send_mac_answer(self, mac_answer) == Panic("todo")

\* mutant of link_adr: the channel mask is acknowledged whatever channel_mask_apply says
link_adr_Mutant(self, req) ==
  LET s1 == IF req.tx_power # 15
            THEN [self EXCEPT !.maximum_tx_power = SomeU8(req.tx_power)]
            ELSE self
      b == band(s1)
      r == IF b.tag = "Some"
           THEN channel_mask_apply(b.val, req.channel_mask_ctrl, req.ch_mask,
                                   s1.uplink_channel_mask)
           ELSE NotCalled
  IN [self |-> IF r.tag = "Ok" THEN [s1 EXCEPT !.uplink_channel_mask = r.mask] ELSE s1,
      channel_mask_ack |-> TRUE]

\* the LinkAdr arm of process_mac_request up to the answer: the device afterwards
\* and channel_mask_ack
link_adr(self, req) ==
  LET s1 == IF req.tx_power # 15
            THEN [self EXCEPT !.maximum_tx_power = SomeU8(req.tx_power)]
            ELSE self
      b == band(s1)
      r == IF b.tag = "Some"
           THEN channel_mask_apply(b.val, req.channel_mask_ctrl, req.ch_mask,
                                   s1.uplink_channel_mask)
           ELSE NotCalled
  IN IF r.tag = "Ok"
     THEN [self |-> [s1 EXCEPT !.uplink_channel_mask = r.mask], channel_mask_ack |-> TRUE]
     ELSE [self |-> s1, channel_mask_ack |-> FALSE]

\* EndDevice::process_mac_request(): the device afterwards, the answer handed to
\* send_mac_answer (NotCalled when none was built) and what the call returned
process_mac_request(self, mac_message) ==
  CASE mac_message.kind = "LinkAdr" ->
         LET l == link_adr(self, mac_message)
             ans == [kind |-> "LinkAdr", channel_mask_ack |-> l.channel_mask_ack,
                     power_ack |-> TRUE, data_rate_ack |-> TRUE]
         IN [self |-> l.self, sent |-> ans, ret |-> send_mac_answer(l.self, ans)]
    [] mac_message.kind = "DutyCycle" ->
         LET s1 == [self EXCEPT !.max_duty_cycle = mac_message.max_duty_cycle]
             ans == [kind |-> "DutyCycle"]
         IN [self |-> s1, sent |-> ans, ret |-> send_mac_answer(s1, ans)]
    [] OTHER -> [self |-> self, sent |-> NotCalled, ret |-> Panic("todo")]


(***************************************************************************)
(* Inputs.                                                                 *)
(***************************************************************************)
\* tests/mac.rs join_request: 00 DC0000D07ED5B370 1E6FEDF57CEEAF00 C886 030AF2C9
JoinRequestVector ==
  << 0, 220, 0, 0, 208, 126, 213, 179, 112, 30, 111, 237, 245, 124, 238, 175, 0,
     200, 134, 3, 10, 242, 201 >>

\* tests/mac.rs join_request: the AppKey B6B53F4A168A7A88BDF7EA135CE9CFCA
AppKeyVector ==
  << 182, 181, 63, 74, 22, 138, 122, 136, 189, 247, 234, 19, 92, 233, 207, 202 >>

\* tests/mac.rs lora_aa: the NwkSKey 44024241ed4ce9a68c6a8bc055233fd3
NwkSKeyVector ==
  << 68, 2, 66, 65, 237, 76, 233, 166, 140, 106, 139, 192, 85, 35, 63, 211 >>

\* byte i (from 1) after the header: the Join-Request vector, then a pattern
BodyByte(i) == IF i <= 18 THEN JoinRequestVector[i + 1] ELSE (37 * i + 11) % 256

\* a buffer of n bytes: header h, body, and the 4-byte trailer t when n >= 5
Buffer(h, n, t) ==
  LET body(k) == [i \in 1..k |-> BodyByte(i)] \o <<>>
  IN IF n = 0 THEN <<>>
     ELSE IF n < 5 THEN <<h>> \o body(n - 1)
     ELSE <<h>> \o body(n - 5) \o t

Trailers == { SubSeq(JoinRequestVector, 20, 23), << 0, 0, 255, 1 >> }

CodecInputs == { Buffer(h, n, SubSeq(JoinRequestVector, 20, 23)) : h \in 0..255, n \in 0..MaxFrameLen }

\* every frame type, with the reserved bits and the major field set or clear
MicHeaders == (0..7) \cup { 56, 57, 58, 64, 65, 66 }

\* tests/mac.rs lora_aa: 40F17DBE4900020001954378762B11FF0D
LoraAaVector ==
  << 64, 241, 125, 190, 73, 0, 2, 0, 1, 149, 67, 120, 118, 43, 17, 255, 13 >>

\* tests/mac.rs lora_2: 40AE130426800000016F895D98810714E3268295
Lora2Vector ==
  << 64, 174, 19, 4, 38, 128, 0, 0, 1, 111, 137, 93, 152, 129, 7, 20, 227, 38, 130, 149 >>

MicInputs ==
  { Buffer(h, n, t) : h \in MicHeaders, n \in 0..MaxFrameLen, t \in Trailers }
    \cup { LoraAaVector, Lora2Vector }

Keys == { AppKeyVector, NwkSKeyVector }

\* app_skey of tests/mac.rs lora_aa
AppSKeyVector ==
  << 236, 146, 88, 2, 174, 67, 12, 167, 127, 211, 221, 115, 203, 44, 197, 136 >>

SessionKey(key) == IF key = "NwkSKey" THEN NwkSKeyVector ELSE AppSKeyVector

\* plaintext payloads of every length 0..MaxPayloadLen, and the FRMPayload of lora_aa
CryptPayloads ==
  { [i \in 1..n |-> BodyByte(i)] \o << >> : n \in 0..MaxPayloadLen }
    \cup { SubSeq(LoraAaVector, 10, 13) }

\* DevAddr and FCnt of lora_aa, and an FCnt that fills three bytes
CryptInputs ==
  [ tag : {"Input"}, payload : CryptPayloads, fport : {0, 1}, dir : {0, 1},
    dev_addr : { u32_from_le_bytes(SubSeq(LoraAaVector, 2, 5)) },
    fcnt : { U32(0, u16_from_le_bytes(SubSeq(LoraAaVector, 7, 8))), U32(1, 65535) } ]

\* tests/frame.rs beacon_eu868_sf_9
Sf9Vector ==
  << 0, 0, 0, 0, 2, 204, 162, 126, 0, 1, 32, 0, 0, 129, 3, 222, 85 >>

\* tests/frame.rs beacon_us915_sf_10
Sf10Vector ==
  << 0, 0, 0, 0, 0, 2, 204, 162, 126, 0, 1, 32, 0, 0, 129, 3, 0, 80, 212 >>

u16_to_le_bytes(v) == << v % 256, v \div 256 >>

\* the wire layout parse_beacon reads back:
\* RFU1 | Param | Time | CRC1 | GwSpecific | RFU2 | CRC2
MakeBeacon(s, param, time, gw, fill) ==
  LET head == [i \in 1..beacon_rfu1_bytes(s) |-> fill] \o << param >> \o time
      tail == gw \o [i \in 1..beacon_rfu2_bytes(s) |-> fill]
  IN head \o u16_to_le_bytes(checksum(head)) \o tail \o u16_to_le_bytes(checksum(tail))

\* one GwSpecific field per InfoDesc kind
GwSamples ==
  { SubSeq(Sf9Vector, 9, 15),
    << 3, 1, 2, 3, 4, 5, 6 >>,
    << 77, 255, 0, 255, 0, 255, 0 >>,
    << 200, 9, 8, 7, 6, 5, 4 >> }

ValidBeacons(s) ==
  { MakeBeacon(s, p, t, g, f) :
      p \in {0, 129}, t \in { SubSeq(Sf9Vector, 3, 6), << 255, 1, 0, 128 >> },
      g \in GwSamples, f \in {0, 90} }

VectorsFor(s) ==
  IF s = 9 THEN { Sf9Vector } ELSE IF s = 10 THEN { Sf10Vector } ELSE { }

\* beacons as a gateway sends them, and arbitrary buffers of every length
BeaconInputs(s) ==
  { [kind |-> "valid", bytes |-> b] : b \in ValidBeacons(s) \cup VectorsFor(s) }
    \cup { [kind |-> "junk", bytes |-> [i \in 1..n |-> BodyByte(i)] \o << >>] :
              n \in 0..MaxBeaconLen }

\* bit j of byte x inverted
FlipByte(x, j) == IF (x \div (2 ^ j)) % 2 = 1 THEN x - 2 ^ j ELSE x + 2 ^ j

(***************************************************************************)
(* The caller's steps.                                                     *)
(***************************************************************************)
NoViews == [mac_header |-> NotCalled, payload_bytes |-> NotCalled, mic |-> NotCalled]

\* nothing handed to the codec / to crypt / to the beacon parser
IdleCodec ==
  /\ bytes = << >>
  /\ frame = NotCalled
  /\ view = NoViews
  /\ pay = NotCalled
  /\ cfl = NotCalled
  /\ micx = NotCalled

IdleCrypt ==
  /\ cin = NotCalled
  /\ cout = NotCalled
  /\ cback = NotCalled

IdleBeacon ==
  /\ sf = 8
  /\ sent = NotCalled
  /\ bbytes = << >>
  /\ flip = -1
  /\ bres = NotCalled

IdleTables ==
  /\ gwin = << >>
  /\ gwout = NotCalled
  /\ mreq = NotCalled
  /\ mcur = << >>
  /\ mprev = << >>
  /\ mres = NotCalled
  /\ mcount = 0
  /\ rcall = NotCalled
  /\ rres = NotCalled

IdleSession ==
  /\ bband = ""
  /\ bstart = 0
  /\ bdr = 0
  /\ bsteps = 0
  /\ dev = NotCalled
  /\ dlast = NotCalled
  /\ dsteps = 0

IdleFrames ==
  /\ IdleCodec
  /\ IdleCrypt
  /\ IdleBeacon

InitWith(inputs) ==
  /\ bytes \in inputs
  /\ frame = NotCalled
  /\ view = NoViews
  /\ pay = NotCalled
  /\ cfl = NotCalled
  /\ micx = NotCalled
  /\ IdleCrypt
  /\ IdleBeacon
  /\ IdleTables
  /\ IdleSession

Init == InitWith(CodecInputs)

\* buffers of every length whose header takes every frame type and major version
CoreInputs ==
  { Buffer(h, n, SubSeq(JoinRequestVector, 20, 23)) :
      h \in (0..7) \cup {64, 129, 194, 255}, n \in 0..MaxFrameLen }

InitMic == InitWith(MicInputs)

InitCrypt ==
  /\ cin \in CryptInputs
  /\ cout = NotCalled
  /\ cback = NotCalled
  /\ IdleCodec
  /\ IdleBeacon
  /\ IdleTables
  /\ IdleSession

InitBeacon ==
  /\ sf \in Sf
  /\ sent \in BeaconInputs(sf)
  /\ bbytes = sent.bytes
  /\ flip = -1
  /\ bres = NotCalled
  /\ IdleCodec
  /\ IdleCrypt
  /\ IdleTables
  /\ IdleSession

\* byte 0 takes every value; the six bytes after it come from a few patterns
GwInputs ==
  { << d >> \o t : d \in 0..255,
      t \in { SubSeq(Sf9Vector, 10, 15), << 255, 255, 255, 255, 255, 255 >>,
              << 0, 0, 0, 0, 0, 0 >>, << 1, 2, 3, 4, 5, 6 >> } }

\* channel masks: none, all, mixed, single low and high bits
ChannelMasks == { 0, 65535, 42405, 23130, 1, 64, 128, 32768 }

\* current masks: none, all, every second bit, every third bit
CurrentMasks ==
  { U128_ZERO, U128_MAX,
    [i \in 1..128 |-> i % 2] \o << >>,
    [i \in 1..128 |-> IF i % 3 = 0 THEN 1 ELSE 0] \o << >> }

Bands == { "Eu868", "Us915" }

InitMask ==
  /\ mreq \in [ tag : {"Input"}, band : Bands, cntl : 0..255, channel_mask : ChannelMasks ]
  /\ mcur \in CurrentMasks
  /\ mprev = << >>
  /\ mres = NotCalled
  /\ mcount = 0
  /\ gwin = << >>
  /\ gwout = NotCalled
  /\ rcall = NotCalled
  /\ rres = NotCalled
  /\ IdleFrames
  /\ IdleSession

\* every data rate, for the RX1 mapping every offset a u8 can hold, and for the
\* payload ceilings every index a u8 can hold
RateCalls ==
  [ tag : {"Input"}, band : Bands, fn : {"backoff_data_rate"}, dr : 0..15, offset : {0} ]
    \cup [ tag : {"Input"}, band : Bands, fn : {"rx1_window_data_rate"},
           dr : 0..15, offset : 0..255 ]
    \cup [ tag : {"Input"}, band : Bands,
           fn : {"maximum_payload_size", "maximum_payload_size_absent_repeaters"},
           dr : 0..255, offset : {0} ]
    \cup [ tag : {"Input"}, band : Bands, fn : {"rx2_window_details"},
           dr : {0}, offset : {0} ]

InitRate ==
  /\ rcall \in RateCalls
  /\ rres = NotCalled
  /\ gwin = << >>
  /\ gwout = NotCalled
  /\ mreq = NotCalled
  /\ mcur = << >>
  /\ mprev = << >>
  /\ mres = NotCalled
  /\ mcount = 0
  /\ IdleFrames
  /\ IdleSession

InitGw ==
  /\ gwin \in GwInputs
  /\ gwout = NotCalled
  /\ mreq = NotCalled
  /\ mcur = << >>
  /\ mprev = << >>
  /\ mres = NotCalled
  /\ mcount = 0
  /\ rcall = NotCalled
  /\ rres = NotCalled
  /\ IdleFrames
  /\ IdleSession

FromBytes ==
  /\ frame.tag = "NotCalled"
  /\ frame' = from_bytes(bytes)
  /\ UNCHANGED << bytes, view, pay, cfl, micx, notCodec >>

MacHeaderCall ==
  /\ frame.tag = "Ok"
  /\ view.mac_header.tag = "NotCalled"
  /\ view' = [view EXCEPT !.mac_header = mac_header(frame)]
  /\ UNCHANGED << bytes, frame, pay, cfl, micx, notCodec >>

PayloadBytesCall ==
  /\ frame.tag = "Ok"
  /\ view.payload_bytes.tag = "NotCalled"
  /\ view' = [view EXCEPT !.payload_bytes = payload_bytes(frame)]
  /\ UNCHANGED << bytes, frame, pay, cfl, micx, notCodec >>

MicCall ==
  /\ frame.tag = "Ok"
  /\ view.mic.tag = "NotCalled"
  /\ view' = [view EXCEPT !.mic = mic(frame)]
  /\ UNCHANGED << bytes, frame, pay, cfl, micx, notCodec >>

PayloadCall ==
  /\ frame.tag = "Ok"
  /\ frame.state = "Encrypted"
  /\ pay.tag = "NotCalled"
  /\ pay' = payload(frame)
  /\ UNCHANGED << bytes, frame, view, cfl, micx, notCodec >>

CfListCall ==
  /\ pay.tag = "Ok"
  /\ pay.kind = "JoinAccept"
  /\ cfl.tag = "NotCalled"
  /\ cfl' = cf_list(pay)
  /\ UNCHANGED << bytes, frame, view, pay, micx, notCodec >>

MicExpectedCall(k) ==
  /\ frame.tag = "Ok"
  /\ frame.state = "Encrypted"
  /\ micx.tag = "NotCalled"
  /\ micx' = [tag |-> "Called", key |-> k, res |-> mic_expected(frame, k)]
  /\ UNCHANGED << bytes, frame, view, pay, cfl, notCodec >>

Next ==
  \/ FromBytes
  \/ MacHeaderCall
  \/ PayloadBytesCall
  \/ MicCall
  \/ PayloadCall
  \/ CfListCall

Spec == Init /\ [][Next]_vars

NextMic ==
  \/ FromBytes
  \/ \E k \in Keys : MicExpectedCall(k)

SpecMic == InitMic /\ [][NextMic]_vars

\* crypt applied to the plaintext payload
CryptCall ==
  /\ cin.tag = "Input"
  /\ cout.tag = "NotCalled"
  /\ cout' = [tag |-> "Bytes",
              data |-> crypt(cin.payload, SessionKey(frame_port_key(cin.fport)),
                             cin.dir, cin.dev_addr, cin.fcnt)]
  /\ UNCHANGED << cin, cback, notCrypt >>

\* crypt applied to its own output, same key, direction, address and counter
CryptAgainCall ==
  /\ cout.tag = "Bytes"
  /\ cback.tag = "NotCalled"
  /\ cback' = [tag |-> "Bytes",
               data |-> crypt(cout.data, SessionKey(frame_port_key(cin.fport)),
                              cin.dir, cin.dev_addr, cin.fcnt)]
  /\ UNCHANGED << cin, cout, notCrypt >>

NextCrypt ==
  \/ CryptCall
  \/ CryptAgainCall

SpecCrypt == InitCrypt /\ [][NextCrypt]_vars

\* the radio channel inverts bit k of the buffer before it is parsed
FlipBit(k) ==
  /\ flip = -1
  /\ bres.tag = "NotCalled"
  /\ k < 8 * Len(bbytes)
  /\ bbytes' = [bbytes EXCEPT ![(k \div 8) + 1] = FlipByte(@, k % 8)]
  /\ flip' = k
  /\ UNCHANGED << sf, sent, bres, notBeacon >>

ParseBeaconCall ==
  /\ bres.tag = "NotCalled"
  /\ bres' = parse_beacon(sf, bbytes)
  /\ UNCHANGED << sf, sent, bbytes, flip, notBeacon >>

NextBeacon ==
  \/ \E k \in 0..(8 * MaxBeaconLen - 1) : FlipBit(k)
  \/ ParseBeaconCall

SpecBeacon == InitBeacon /\ [][NextBeacon]_vars

\* the frame codec and the beacon codec together: either kind of buffer arrives
InitCore ==
  \/ InitWith(CoreInputs)
  \/ InitBeacon

NextCore ==
  \/ Next
  \/ NextBeacon

SpecCore == InitCore /\ [][NextCore]_vars

GwFromBytesCall ==
  /\ Len(gwin) = 7
  /\ gwout.tag = "NotCalled"
  /\ gwout' = [tag |-> "Returned", kind |-> GwSpecificKind_from_bytes(gwin)]
  /\ UNCHANGED << gwin, notGw >>

NextGw == GwFromBytesCall

SpecGw == InitGw /\ [][NextGw]_vars

BackoffDataRateCall ==
  /\ rcall.tag = "Input"
  /\ rcall.fn = "backoff_data_rate"
  /\ rres.tag = "NotCalled"
  /\ rres' = backoff_data_rate(rcall.band, rcall.dr)
  /\ UNCHANGED << rcall, notRate >>

Rx1WindowDataRateCall ==
  /\ rcall.tag = "Input"
  /\ rcall.fn = "rx1_window_data_rate"
  /\ rres.tag = "NotCalled"
  /\ rres' = rx1_window_data_rate(rcall.band, rcall.dr, rcall.offset)
  /\ UNCHANGED << rcall, notRate >>

MaximumPayloadSizeCall ==
  /\ rcall.tag = "Input"
  /\ rcall.fn = "maximum_payload_size"
  /\ rres.tag = "NotCalled"
  /\ rres' = maximum_payload_size(rcall.band, rcall.dr)
  /\ UNCHANGED << rcall, notRate >>

MaximumPayloadSizeAbsentRepeatersCall ==
  /\ rcall.tag = "Input"
  /\ rcall.fn = "maximum_payload_size_absent_repeaters"
  /\ rres.tag = "NotCalled"
  /\ rres' = maximum_payload_size_absent_repeaters(rcall.band, rcall.dr)
  /\ UNCHANGED << rcall, notRate >>

Rx2WindowDetailsCall ==
  /\ rcall.tag = "Input"
  /\ rcall.fn = "rx2_window_details"
  /\ rres.tag = "NotCalled"
  /\ rres' = rx2_window_details(rcall.band)
  /\ UNCHANGED << rcall, notRate >>

NextRate ==
  \/ BackoffDataRateCall
  \/ Rx1WindowDataRateCall
  \/ MaximumPayloadSizeCall
  \/ MaximumPayloadSizeAbsentRepeatersCall
  \/ Rx2WindowDetailsCall

SpecRate == InitRate /\ [][NextRate]_vars

\* the caller applies the request to its current mask and keeps an accepted result
ChannelMaskApplyCall ==
  /\ mreq.tag = "Input"
  /\ mcount < MaxApplies
  /\ LET r == channel_mask_apply(mreq.band, mreq.cntl, mreq.channel_mask, mcur)
     IN /\ mres' = r
        /\ mcur' = IF r.tag = "Ok" THEN r.mask ELSE mcur
  /\ mprev' = mcur
  /\ mcount' = mcount + 1
  /\ UNCHANGED << mreq, notMask >>

NextMask == ChannelMaskApplyCall

SpecMask == InitMask /\ [][NextMask]_vars

\* a run of LinkADRReq in one band: a ChMaskCntl of every arm of either band, with
\* channel masks none, all, mixed and a single bit
MaskRequests ==
  [ tag : {"Input"}, band : Bands, cntl : {0, 1, 4, 5, 6, 7, 8, 255},
    channel_mask : {0, 65535, 42405, 1} ]

InitMaskSeq ==
  /\ mreq \in [ tag : {"Start"}, band : Bands ]
  /\ mcur \in CurrentMasks
  /\ mprev = << >>
  /\ mres = NotCalled
  /\ mcount = 0
  /\ gwin = << >>
  /\ gwout = NotCalled
  /\ rcall = NotCalled
  /\ rres = NotCalled
  /\ IdleFrames
  /\ IdleSession

\* the caller applies the next request of the run to its current mask and keeps an
\* accepted result
ChannelMaskApplyNext(req) ==
  /\ mreq.tag \in {"Start", "Input"}
  /\ req.band = mreq.band
  /\ mcount < MaxRequests
  /\ mreq' = req
  /\ LET r == channel_mask_apply(req.band, req.cntl, req.channel_mask, mcur)
     IN /\ mres' = r
        /\ mcur' = IF r.tag = "Ok" THEN r.mask ELSE mcur
  /\ mprev' = mcur
  /\ mcount' = mcount + 1
  /\ UNCHANGED notMask

NextMaskSeq == \E req \in MaskRequests : ChannelMaskApplyNext(req)

SpecMaskSeq == InitMaskSeq /\ [][NextMaskSeq]_vars

\* LinkADRReq with and without a TX power, two channel masks and every ChMaskCntl;
\* a DutyCycleReq; a DevStatusReq
MacRequests ==
  [ kind : {"LinkAdr"}, data_rate : {0}, tx_power : {3, 15}, ch_mask : {0, 42405},
    channel_mask_ctrl : 0..7, nb_trans : {1} ]
    \cup [ kind : {"DutyCycle"}, max_duty_cycle : {5} ]
    \cup [ kind : {"DevStatus"} ]

\* no band, the two bands with rules, and a band without
BandIdChoices == { None, SomeBandId("Eu868"), SomeBandId("US915"), SomeBandId("AU915") }

InitDevice ==
  /\ dev = EndDevice_default
  /\ dlast = [op |-> "default"]
  /\ dsteps = 0
  /\ bband = ""
  /\ bstart = 0
  /\ bdr = 0
  /\ bsteps = 0
  /\ IdleFrames
  /\ IdleTables

SetBandId(band_id) ==
  /\ dsteps < MaxDeviceSteps
  /\ dev' = set_band_id(dev, band_id)
  /\ dlast' = [op |-> "set_band_id", arg |-> band_id, before |-> dev]
  /\ dsteps' = dsteps + 1
  /\ UNCHANGED notDevice

\* the call changes the device and then panics in send_mac_answer; the caller that
\* outlives the panic goes on with the device as the call left it
ProcessMacRequest(mac_message) ==
  /\ dsteps < MaxDeviceSteps
  /\ LET r == process_mac_request(dev, mac_message)
     IN /\ dev' = r.self
        /\ dlast' = [op |-> "process_mac_request", arg |-> mac_message, before |-> dev,
                     sent |-> r.sent, ret |-> r.ret]
  /\ dsteps' = dsteps + 1
  /\ UNCHANGED notDevice

NextDevice ==
  \/ \E b \in BandIdChoices : SetBandId(b)
  \/ \E m \in MacRequests : ProcessMacRequest(m)

SpecDevice == InitDevice /\ [][NextDevice]_vars

\* the data rates on which the band's backoff_data_rate is defined
BackoffDomain(b) == { d \in 0..255 : backoff_data_rate(b, d) # None }

InitBackoff ==
  /\ bband \in Bands
  /\ bstart \in BackoffDomain(bband)
  /\ bdr = bstart
  /\ bsteps = 0
  /\ dev = NotCalled
  /\ dlast = NotCalled
  /\ dsteps = 0
  /\ IdleFrames
  /\ IdleTables

\* the device falls back once more: dr_current becomes backoff_data_rate(dr_current).
\* Nothing in the code ends the fallback, so the count of applications is kept
\* modulo MaxBackoffSteps + 1, which is more than the number of data rates.
BackoffStep ==
  /\ bband \in Bands
  /\ LET r == backoff_data_rate(bband, bdr)
     IN /\ r.tag = "Some"
        /\ bdr' = r.dr
  /\ bsteps' = (bsteps + 1) % (MaxBackoffSteps + 1)
  /\ UNCHANGED << bband, bstart, notBackoff >>

NextBackoff == BackoffStep

SpecBackoff == InitBackoff /\ [][NextBackoff]_vars

\* the device goes on falling back as long as it can
FairBackoff == SpecBackoff /\ WF_vars(BackoffStep)

(***************************************************************************)
(* Frame codec: decode, views, payload dispatch.                           *)
(***************************************************************************)
\* C1: from_bytes fails with SmallerThanMinSize{have = len, need = 12} exactly
\* when the input has fewer than 12 bytes; every input of 12 or more bytes is
\* accepted whatever its content.
C1_FromBytesMinSize ==
  frame.tag # "NotCalled" =>
    IF Len(bytes) < 12
    THEN frame = [tag |-> "Err", err |-> "SmallerThanMinSize",
                  have |-> Len(bytes), need |-> 12]
    ELSE frame.tag = "Ok" /\ frame.bytes.data = bytes

\* a 12-byte buffer whose header has every bit set is accepted
C1_Witness ==
  frame.tag = "Ok" /\ Len(bytes) = 12 /\ bytes[1] = 255

\* C2: on a decoded frame of length n, mac_header() is byte 0, payload_bytes()
\* is bytes[1..n-4] and mic() is bytes[n-4..n]; the views are disjoint, cover
\* the buffer, and the payload view has at least 7 bytes.
C2_ViewsPartition ==
  frame.tag = "Ok" =>
    LET n == Len(bytes)
        h == view.mac_header
        p == view.payload_bytes
        m == view.mic
    IN /\ h.tag # "NotCalled" => h = [tag |-> "MacHeader", byte |-> bytes[1]]
       /\ p.tag # "NotCalled" =>
            /\ p = [tag |-> "Slice", off |-> 1, data |-> SubSeq(bytes, 2, n - 4)]
            /\ Len(p.data) >= 7
       /\ m.tag # "NotCalled" =>
            m = [tag |-> "Slice", off |-> n - 4, data |-> SubSeq(bytes, n - 3, n)]
       /\ (p.tag # "NotCalled" /\ m.tag # "NotCalled") =>
            /\ 1 + Len(p.data) + 4 = n
            /\ p.off + Len(p.data) = m.off
            /\ m.off + Len(m.data) = n

\* the three views of a minimum-size frame
C2_Witness ==
  /\ frame.tag = "Ok"
  /\ Len(bytes) = 12
  /\ view.mac_header.tag = "MacHeader"
  /\ view.payload_bytes.tag = "Slice"
  /\ Len(view.payload_bytes.data) = 7
  /\ view.mic.tag = "Slice"

\* C3: payload() returns UnknownMajor{major} when the major field is not 0,
\* whatever the frame type and length; otherwise JoinRequest succeeds iff the
\* payload region is 18 bytes, JoinAccept iff it is 12 or 28 bytes (SizeMismatch
\* otherwise), every other frame type succeeds as a MacPayload over the whole
\* payload region; the reserved bits 3..5 never change the outcome.
C3_PayloadDispatch ==
  pay.tag # "NotCalled" =>
    LET n == Len(bytes)
        maj == bytes[1] \div 64
        ft == bytes[1] % 8
        region == [tag |-> "Slice", off |-> 1, data |-> SubSeq(bytes, 2, n - 4)]
        plen == n - 5
    IN IF maj # 0
       THEN pay = [tag |-> "Err", err |-> "UnknownMajor", major |-> maj]
       ELSE CASE ft = 0 ->
                   IF plen = 18
                   THEN pay = [tag |-> "Ok", kind |-> "JoinRequest", bytes |-> region]
                   ELSE /\ pay.tag = "Err"
                        /\ pay.err = "JoinRequestParseError"
                        /\ pay.inner.err = "SizeMismatch"
                        /\ pay.inner.have = plen
              [] ft = 1 ->
                   IF plen \in {12, 28}
                   THEN pay = [tag |-> "Ok", kind |-> "JoinAccept", bytes |-> region]
                   ELSE /\ pay.tag = "Err"
                        /\ pay.err = "JoinAcceptParseError"
                        /\ pay.inner.err = "SizeMismatch"
                        /\ pay.inner.have = plen
              [] OTHER ->
                   pay = [tag |-> "Ok", kind |-> "MacPayload", bytes |-> region]

\* a 28-byte Join-Accept with all three reserved bits set is accepted
C3_Witness ==
  /\ pay.tag = "Ok"
  /\ pay.kind = "JoinAccept"
  /\ Len(pay.bytes.data) = 28
  /\ (bytes[1] \div 8) % 8 = 7

C5_JoinMic ==
  (micx.tag = "Called" /\ bytes[1] % 8 \in {0, 1}) =>
    LET n == Len(bytes)
        msg == << mac_header(frame).byte >> \o payload_bytes(frame).data
    IN /\ micx.res = [tag |-> "Mic", data |-> SubSeq(aes128_cmac(micx.key, msg), 1, 4)]
       /\ \A t \in Trailers :
            mic_expected(from_bytes(SubSeq(bytes, 1, n - 4) \o t), micx.key) = micx.res
       /\ (bytes = JoinRequestVector /\ micx.key = AppKeyVector) =>
            micx.res.data = << 3, 10, 242, 201 >>

\* the known Join-Request vector, whose expected MIC is its wire MIC
C5_Witness ==
  /\ micx.tag = "Called"
  /\ bytes = JoinRequestVector
  /\ micx.key = AppKeyVector
  /\ micx.res.tag = "Mic"
  /\ micx.res.data = SubSeq(bytes, 20, 23)

C8_CryptSelfInverse ==
  LET K == SessionKey(frame_port_key(cin.fport))
      n == Len(cin.payload)
      k == (n + 15) \div 16
      S == [i \in 1..k |->
              Aes128Encrypt(K, BlockA(i, cin.dir, cin.dev_addr, cin.fcnt))] \o << >>
  IN /\ cout.tag = "Bytes" =>
          /\ Len(cout.data) = n
          /\ \A j \in 1..n :
               cout.data[j] =
                 Xor8(cin.payload[j], S[((j - 1) \div 16) + 1][((j - 1) % 16) + 1])
     /\ cback.tag = "Bytes" =>
          /\ Len(cback.data) = n
          /\ cback.data = cin.payload

\* a payload of the largest length, not a multiple of 16, went through crypt twice
C8_Witness ==
  /\ cback.tag = "Bytes"
  /\ Len(cin.payload) = MaxPayloadLen
  /\ Len(cin.payload) % 16 # 0
  /\ cout.data # cin.payload
  /\ cback.data = cin.payload

\* C9: for SF8..SF12 beacon_rfu1_bytes is 0,1,2,3,4, beacon_rfu2_bytes is 3,0,1,2,3
\* and beacon_bytes is 16 plus both, that is 19,17,19,21,23; parse_beacon returns
\* WrongSize{need = beacon_bytes(sf), actual = len} for every input of another
\* length, whatever its content, and never WrongSize for an input of that length.
C9_BeaconSize ==
  /\ \A s \in Sf :
       /\ beacon_rfu1_bytes(s) = << 0, 1, 2, 3, 4 >>[s - 7]
       /\ beacon_rfu2_bytes(s) = << 3, 0, 1, 2, 3 >>[s - 7]
       /\ beacon_bytes(s) = 16 + beacon_rfu1_bytes(s) + beacon_rfu2_bytes(s)
       /\ beacon_bytes(s) = << 19, 17, 19, 21, 23 >>[s - 7]
  /\ bres.tag # "NotCalled" =>
       IF Len(bbytes) # << 19, 17, 19, 21, 23 >>[sf - 7]
       THEN bres = [tag |-> "Err", err |-> "WrongSize",
                    need |-> << 19, 17, 19, 21, 23 >>[sf - 7],
                    actual |-> Len(bbytes)]
       ELSE ~(bres.tag = "Err" /\ bres.err = "WrongSize")

\* an input one byte short of the beacon size was rejected with WrongSize
C9_Witness ==
  /\ bres.tag = "Err"
  /\ bres.err = "WrongSize"
  /\ bres.actual + 1 = bres.need
  /\ Len(bbytes) = bres.actual

\* C10: a beacon whose CRC1 is taken over bytes [0, rfu1+5) and whose CRC2 is
\* taken over GwSpecific and RFU2 parses; with one bit of it inverted inside
\* [0, rfu1+5) parse_beacon returns Crc1Wrong, and with one bit inverted inside
\* the 7 + rfu2 bytes after CRC1 it returns Crc2Wrong.
C10_CrcRegions ==
  (bres.tag # "NotCalled" /\ sent.kind = "valid") =>
    LET i == flip \div 8
        rfu1 == beacon_rfu1_bytes(sf)
        rfu2 == beacon_rfu2_bytes(sf)
    IN /\ flip = -1 => bres.tag = "Ok"
       /\ (flip >= 0 /\ i < rfu1 + 5) => bres = [tag |-> "Err", err |-> "Crc1Wrong"]
       /\ (flip >= 0 /\ rfu1 + 7 <= i /\ i < rfu1 + 7 + 7 + rfu2) =>
            bres = [tag |-> "Err", err |-> "Crc2Wrong"]

\* a bit of the last RFU2 byte of a valid SF12 beacon was inverted and Crc2Wrong came back
C10_Witness ==
  /\ sent.kind = "valid"
  /\ sf = 12
  /\ flip \div 8 = beacon_rfu1_bytes(sf) + 7 + 7 + beacon_rfu2_bytes(sf) - 1
  /\ bres = [tag |-> "Err", err |-> "Crc2Wrong"]

\* C11: the SF9 vector of tests/frame.rs parses with Param = 0, Time = 0xCC020000
\* (bytes 00 00 02 CC read least significant first), GwSpecific = Gps, first
\* antenna, lat = 0x002001, long = 0x038100; the SF10 vector parses too.
C11_BeaconVectors ==
  (bres.tag # "NotCalled" /\ flip = -1) =>
    /\ (sf = 9 /\ bbytes = Sf9Vector) =>
         bres = [tag |-> "Ok",
                 beacon |-> [param |-> [byte |-> 0],
                             time |-> U32(52226, 0),
                             gw_specific |-> [kind |-> "Gps", antenna |-> "First",
                                              lat |-> 8193, long |-> 229632]]]
    /\ (sf = 10 /\ bbytes = Sf10Vector) =>
         /\ bres.tag = "Ok"
         /\ bres.beacon.time = U32(52226, 0)
         /\ bres.beacon.gw_specific.kind = "Gps"

\* the SF10 vector, untouched, went through parse_beacon and came back Ok
C11_Witness ==
  /\ sf = 10
  /\ bbytes = Sf10Vector
  /\ flip = -1
  /\ bres.tag = "Ok"

\* C12: GwSpecificKind::from_bytes returns a variant for every 7-byte input,
\* chosen by byte 0 alone: 0, 1, 2 give Gps with antenna First, Second, Third,
\* 3 gives NetIdAndGatewayId, both with the 24-bit little-endian fields of bytes
\* 1..4 and 4..7, each below 2^24; 4..127 gives Rfu and 128..255 NetworkSpecific,
\* each with info_desc = byte 0 and the six other bytes unchanged.
C12_GwSpecific ==
  gwout.tag # "NotCalled" =>
    LET d == gwin[1]
        f1 == gwin[2] + 256 * gwin[3] + 65536 * gwin[4]
        f2 == gwin[5] + 256 * gwin[6] + 65536 * gwin[7]
        g == gwout.kind
    IN /\ gwout.tag = "Returned"
       /\ f1 < 16777216 /\ f2 < 16777216
       /\ d \in 0..2 =>
            g = [kind |-> "Gps", antenna |-> << "First", "Second", "Third" >>[d + 1],
                 lat |-> f1, long |-> f2]
       /\ d = 3 => g = [kind |-> "NetIdAndGatewayId", net_id |-> f1, gateway_id |-> f2]
       /\ d \in 4..127 =>
            g = [kind |-> "Rfu", info_desc |-> d, info |-> SubSeq(gwin, 2, 7)]
       /\ d \in 128..255 =>
            g = [kind |-> "NetworkSpecific", info_desc |-> d, info |-> SubSeq(gwin, 2, 7)]

\* a Gps field for the third antenna with all-ones coordinates was decoded
C12_Witness ==
  /\ gwout.tag = "Returned"
  /\ gwin[1] = 2
  /\ gwout.kind.kind = "Gps"
  /\ gwout.kind.lat = 16777215

\* C13: EU868 channel_mask_apply with cntl = 0 returns a mask whose bits 0..15 are
\* those of current_mask OR channel_mask and whose bits 16..127 are those of
\* current_mask.
C13_Eu868MaskKeepsUpperBits ==
  (mcount >= 1 /\ mreq.band = "Eu868" /\ mreq.cntl = 0) =>
    /\ mres.tag = "Ok"
    /\ \A k \in 0..15 :
         mres.mask[k + 1] =
           (IF mprev[k + 1] = 1 \/ (mreq.channel_mask \div (2 ^ k)) % 2 = 1 THEN 1 ELSE 0)
    /\ \A k \in 16..127 : mres.mask[k + 1] = mprev[k + 1]

\* C14: US915 channel_mask_apply with cntl in 0..4 returns a mask whose bits
\* 16*cntl .. 16*cntl+15 are channel_mask and whose other bits are those of
\* current_mask.
C14_Us915MaskReplacesSlice ==
  (mcount >= 1 /\ mreq.band = "Us915" /\ mreq.cntl \in 0..4) =>
    /\ mres.tag = "Ok"
    /\ \A k \in 0..127 :
         mres.mask[k + 1] =
           (IF k \div 16 = mreq.cntl
            THEN (mreq.channel_mask \div (2 ^ (k % 16))) % 2
            ELSE mprev[k + 1])

\* C15: US915 channel_mask_apply with cntl = 5 sets the 16 bits of group g
\* (g = 0..6) to bit g of channel_mask and leaves bits 112..127 as in current_mask.
C15_Us915MaskGroups ==
  (mcount >= 1 /\ mreq.band = "Us915" /\ mreq.cntl = 5) =>
    /\ mres.tag = "Ok"
    /\ \A k \in 0..111 :
         mres.mask[k + 1] = (mreq.channel_mask \div (2 ^ (k \div 16))) % 2
    /\ \A k \in 112..127 : mres.mask[k + 1] = mprev[k + 1]

\* C16: US915 channel_mask_apply with cntl = 6 returns bits 0..63 all set, with
\* cntl = 7 bits 0..63 all clear, in both cases bits 64..79 equal to channel_mask,
\* and the same mask whatever current_mask is.
C16_Us915MaskAllOrNone ==
  (mcount >= 1 /\ mreq.band = "Us915" /\ mreq.cntl \in 6..7) =>
    /\ mres.tag = "Ok"
    /\ \A k \in 0..63 : mres.mask[k + 1] = (IF mreq.cntl = 6 THEN 1 ELSE 0)
    /\ \A k \in 64..79 :
         mres.mask[k + 1] = (mreq.channel_mask \div (2 ^ (k - 64))) % 2
    /\ \A c \in CurrentMasks :
         channel_mask_apply(mreq.band, mreq.cntl, mreq.channel_mask, c) = mres

\* cntl = 6 was applied with a channel mask of 0x8000 to a current mask of all zeros
C16_Witness ==
  /\ mcount = 1
  /\ mreq.band = "Us915"
  /\ mreq.cntl = 6
  /\ mreq.channel_mask = 32768
  /\ mprev = U128_ZERO
  /\ mres.tag = "Ok"
  /\ mres.mask[80] = 1

\* C17: channel_mask_apply returns Err exactly for the unsupported control values
\* (EU868: 1..5 and 7..255; US915: 8..255) and Ok with a 128-bit mask for all
\* others (EU868: 0 and 6; US915: 0..7), never a panic, for every channel_mask and
\* current_mask.
C17_MaskRejection ==
  mcount >= 1 =>
    LET unsupported ==
          IF mreq.band = "Eu868" THEN (1..5) \cup (7..255) ELSE 8..255
    IN IF mreq.cntl \in unsupported
       THEN mres = [tag |-> "Err"]
       ELSE /\ mres.tag = "Ok"
            /\ Len(mres.mask) = 128
            /\ \A k \in 1..128 : mres.mask[k] \in {0, 1}

\* EU868 rejected the RFU control value 5
C17_Witness ==
  /\ mcount >= 1
  /\ mreq.band = "Eu868"
  /\ mreq.cntl = 5
  /\ mres = [tag |-> "Err"]

\* C18: EU868 channel_mask_apply with cntl = 6 returns the mask with all 128 bits
\* set for every current_mask and channel_mask, also when current_mask is already
\* the all-set mask.
C18_Eu868AllChannels ==
  (mcount >= 1 /\ mreq.band = "Eu868" /\ mreq.cntl = 6) =>
    /\ mres.tag = "Ok"
    /\ Len(mres.mask) = 128
    /\ \A k \in 0..127 : mres.mask[k + 1] = 1
    /\ mcount >= 2 => \A k \in 0..127 : mprev[k + 1] = 1

\* cntl = 6 was applied a second time, to the all-set mask the first call returned
C18_Witness ==
  /\ mcount = 2
  /\ mreq.band = "Eu868"
  /\ mreq.cntl = 6
  /\ \A k \in 0..127 : mprev[k + 1] = 1
  /\ \A k \in 0..127 : mres.mask[k + 1] = 1

\* C19: backoff_data_rate returns a data rate exactly on the table's domain and
\* None beyond it, without a panic, for each of the 16 data rates: EU868 returns
\* Some for 0..11 and None for 12..15, US915 Some for 0..6 and None for 7..15.
C19_BackoffDomain ==
  (rres.tag # "NotCalled" /\ rcall.fn = "backoff_data_rate") =>
    LET last == IF rcall.band = "Eu868" THEN 11 ELSE 6
    IN IF rcall.dr <= last
       THEN rres.tag = "Some" /\ rres.dr \in 0..15
       ELSE rres = [tag |-> "None"]

\* EU868 returned a backoff for the last row of its table, data rate 11
C19_Witness ==
  /\ rcall.tag = "Input"
  /\ rcall.fn = "backoff_data_rate"
  /\ rcall.band = "Eu868"
  /\ rcall.dr = 11
  /\ rres.tag = "Some"

\* C20: rx1_window_data_rate returns a data rate for every pair inside the table
\* (EU868: upstream_dr 0..11 and offset 0..5; US915: upstream_dr 0..6 and offset
\* 0..3) and None for every pair outside it, without a panic, for every data rate
\* 0..15 and offset 0..255.
C20_Rx1Domain ==
  (rres.tag # "NotCalled" /\ rcall.fn = "rx1_window_data_rate") =>
    LET rows == IF rcall.band = "Eu868" THEN 12 ELSE 7
        cols == IF rcall.band = "Eu868" THEN 6 ELSE 4
    IN IF rcall.dr < rows /\ rcall.offset < cols
       THEN rres.tag = "Some" /\ rres.dr \in 0..15
       ELSE rres = [tag |-> "None"]

\* US915 returned a data rate for the last cell of its table, upstream 6, offset 3
C20_Witness ==
  /\ rcall.tag = "Input"
  /\ rcall.fn = "rx1_window_data_rate"
  /\ rcall.band = "Us915"
  /\ rcall.dr = 6
  /\ rcall.offset = 3
  /\ rres.tag = "Some"

\* C21: for each band and every index 0..255, maximum_payload_size and
\* maximum_payload_size_absent_repeaters are defined for the same data rates
\* (EU868: 0..11; US915: 0..6 and 8..13) and None elsewhere, and where defined
\* the ceiling without repeaters is at least the ceiling with repeaters.
C21_MaxPayloadTables ==
  (rres.tag # "NotCalled"
     /\ rcall.fn \in {"maximum_payload_size", "maximum_payload_size_absent_repeaters"}) =>
    LET defined == IF rcall.band = "Eu868" THEN 0..11 ELSE (0..6) \cup (8..13)
        with == maximum_payload_size(rcall.band, rcall.dr)
        absent == maximum_payload_size_absent_repeaters(rcall.band, rcall.dr)
    IN /\ rres = (IF rcall.fn = "maximum_payload_size" THEN with ELSE absent)
       /\ IF rcall.dr \in defined
          THEN /\ rres.tag = "Some"
               /\ with.tag = "Some" /\ absent.tag = "Some"
               /\ with.val \in 0..255 /\ absent.val \in 0..255
               /\ absent.val >= with.val
          ELSE /\ rres = [tag |-> "None"]
               /\ with = [tag |-> "None"] /\ absent = [tag |-> "None"]

\* US915 maximum_payload_size_absent_repeaters returned None for data rate 7, the gap
\* in its table
C21_Witness ==
  /\ rcall.tag = "Input"
  /\ rcall.fn = "maximum_payload_size_absent_repeaters"
  /\ rcall.band = "Us915"
  /\ rcall.dr = 7
  /\ rres = [tag |-> "None"]

\* C30: the data rate rx2_window_details returns lies between data_rate_min and
\* data_rate_max of every downstream channel of the band (EU868: the three
\* channels; US915: the 8-channel downstream plan).
C30_Rx2DataRateSupported ==
  (rres.tag # "NotCalled" /\ rcall.fn = "rx2_window_details") =>
    \A r \in downstream_data_rates(rcall.band) :
      r[1] <= rres.data_rate /\ rres.data_rate <= r[2]

\* C22: for every byte string, from_bytes, the three views and payload() return a
\* value or a declared error, and parse_beacon for every spreading factor returns
\* Ok, WrongSize, Crc1Wrong or Crc2Wrong, never a panic (no slice index out of
\* range, no failed conversion); on an input of exactly beacon_bytes(sf) bytes
\* parse_beacon returns Ok, Crc1Wrong or Crc2Wrong.
C22_NoAbort ==
  /\ frame.tag \in {"NotCalled", "Ok", "Err"}
  /\ frame.tag = "Err" => frame.err = "SmallerThanMinSize"
  /\ view.mac_header.tag # "Panic"
  /\ view.payload_bytes.tag \in {"NotCalled", "Slice"}
  /\ view.mic.tag \in {"NotCalled", "Slice"}
  /\ pay.tag \in {"NotCalled", "Ok", "Err"}
  /\ pay.tag = "Err" =>
       pay.err \in {"UnknownMajor", "JoinRequestParseError", "JoinAcceptParseError"}
  /\ bres.tag \in {"NotCalled", "Ok", "Err"}
  /\ bres.tag = "Err" => bres.err \in {"WrongSize", "Crc1Wrong", "Crc2Wrong"}
  /\ (bres.tag # "NotCalled" /\ Len(bbytes) = beacon_bytes(sf)) =>
       \/ bres.tag = "Ok"
       \/ bres.tag = "Err" /\ bres.err \in {"Crc1Wrong", "Crc2Wrong"}

\* a 12-byte buffer, the shortest from_bytes accepts, went through all three views
\* and payload()
C22_Witness ==
  /\ Len(bytes) = 12
  /\ frame.tag = "Ok"
  /\ view.mac_header.tag # "NotCalled"
  /\ view.payload_bytes.tag = "Slice"
  /\ view.mic.tag = "Slice"
  /\ pay.tag \in {"Ok", "Err"}

(***************************************************************************)
(* The end device: LinkADRReq, band selection.                             *)
(***************************************************************************)
\* C23: after an EndDevice with a band selected has processed a LinkADRReq:
\* if the band's channel_mask_apply rejects (cntl, mask, stored mask) the stored
\* uplink channel mask is unchanged and the answer has channel_mask_ack false;
\* if it accepts, the stored mask is the returned mask and channel_mask_ack is
\* true; with no band selected the mask is unchanged and channel_mask_ack false.
C23_LinkAdrMask ==
  (dlast.op = "process_mac_request" /\ dlast.arg.kind = "LinkAdr") =>
    LET b == band(dlast.before)
        r == channel_mask_apply(b.val, dlast.arg.channel_mask_ctrl, dlast.arg.ch_mask,
                                dlast.before.uplink_channel_mask)
    IN /\ dlast.sent.kind = "LinkAdr"
       /\ IF b.tag = "Some" /\ r.tag = "Ok"
          THEN /\ dev.uplink_channel_mask = r.mask
               /\ dlast.sent.channel_mask_ack = TRUE
          ELSE /\ dev.uplink_channel_mask = dlast.before.uplink_channel_mask
               /\ dlast.sent.channel_mask_ack = FALSE

\* a device on US915 accepted ChMaskCntl 7 with mask 0xA5A5 and stores a new mask
C23_Witness ==
  /\ dlast.op = "process_mac_request"
  /\ dlast.arg.kind = "LinkAdr"
  /\ dlast.before.band_id = SomeBandId("US915")
  /\ dlast.arg.channel_mask_ctrl = 7
  /\ dlast.arg.ch_mask = 42405
  /\ dlast.sent.channel_mask_ack = TRUE
  /\ dev.uplink_channel_mask # dlast.before.uplink_channel_mask

\* C24: band() gives the band rules when band_id is Eu868 or US915 and none
\* otherwise, so a device whose band_id is Eu868 processes a LinkADRReq by the
\* EU868 rules (ChMaskCntl 6 is acknowledged and the stored mask becomes all
\* ones), one on US915 by the US915 rules, and any other by no rules.
C24_BandRules ==
  /\ dev.band_id = SomeBandId("Eu868") => band(dev) = [tag |-> "Some", val |-> "Eu868"]
  /\ dev.band_id = SomeBandId("US915") => band(dev) = [tag |-> "Some", val |-> "Us915"]
  /\ dev.band_id \notin {SomeBandId("Eu868"), SomeBandId("US915")} => band(dev) = None
  /\ (/\ dlast.op = "process_mac_request"
      /\ dlast.arg.kind = "LinkAdr"
      /\ dlast.before.band_id = SomeBandId("Eu868")
      /\ dlast.arg.channel_mask_ctrl = 6) =>
       /\ dlast.sent.channel_mask_ack = TRUE
       /\ dev.uplink_channel_mask = U128_MAX

\* C25: after set_band_id has changed the band_id, the stored uplink channel
\* mask is the default (all ones) and maximum_tx_power is None.
C25_SetBandIdResets ==
  (dlast.op = "set_band_id" /\ dlast.before.band_id # dev.band_id) =>
    /\ dev.uplink_channel_mask = EndDevice_default.uplink_channel_mask
    /\ dev.maximum_tx_power = EndDevice_default.maximum_tx_power

\* C27: a LinkADRReq answered with channel_mask_ack false changed no field of
\* the device; in particular maximum_tx_power keeps its value.
C27_LinkAdrAtomic ==
  (/\ dlast.op = "process_mac_request"
   /\ dlast.arg.kind = "LinkAdr"
   /\ dlast.sent.channel_mask_ack = FALSE) =>
     /\ dev.maximum_tx_power = dlast.before.maximum_tx_power
     /\ dev = dlast.before

(***************************************************************************)
(* Data-rate backoff, applied repeatedly.                                  *)
(***************************************************************************)
\* C26: in each band, from any data rate on which backoff_data_rate is defined,
\* applying backoff_data_rate again and again stays on data rates where it is
\* defined, never raises the data-rate index, and reaches DR0.
C26_BackoffConverges ==
  /\ [](bband \in Bands => bdr \in BackoffDomain(bband))
  /\ [][bdr' <= bdr]_vars
  /\ <>(bband \in Bands => bdr = 0)

(***************************************************************************)
(* Channel masks over several requests.                                    *)
(***************************************************************************)
\* C28: under EU868 an accepted channel_mask_apply never clears a bit among bits
\* 0..15: a bit set in the mask before the call is set in the mask the call
\* returns, whatever channel_mask_cntl and channel_mask are, so over any run of
\* calls a set bit stays set.
C28_Eu868NeverDisables ==
  [][ (mreq'.band = "Eu868" /\ mres'.tag = "Ok" /\ Len(mcur) = 128) =>
        /\ mcur' = mres'.mask
        /\ \A k \in 1..16 : mcur[k] = 1 => mcur'[k] = 1 ]_vars

\* the third request of an EU868 run is ChMaskCntl 0 with an empty channel mask,
\* on a mask that had bit 0 set and bit 1 clear
C28_Witness ==
  /\ mreq.tag = "Input"
  /\ mreq.band = "Eu868"
  /\ mcount = MaxRequests
  /\ mreq.cntl = 0
  /\ mreq.channel_mask = 0
  /\ mres.tag = "Ok"
  /\ mprev[1] = 1
  /\ mprev[2] = 0
  /\ mcur[1] = 1

\* C29: in both bands, applying an accepted (channel_mask_cntl, channel_mask) to
\* the mask a first application returned gives that same mask again.
C29_ChannelMaskApplyIdempotent ==
  (mreq.tag = "Input" /\ mcount = 2 /\ mres.tag = "Ok") =>
    /\ mres.mask = mprev
    /\ mcur = mprev

\* a request that changed the mask the first time was applied a second time
C29_Witness ==
  /\ mreq.tag = "Input"
  /\ mcount = 2
  /\ mres.tag = "Ok"
  /\ mreq.band = "Us915"
  /\ mreq.cntl = 5
  /\ mreq.channel_mask = 42405
  /\ mprev # U128_MAX
  /\ mprev # U128_ZERO

====
